---- MODULE Spec2Model ----
(***************************************************************************)
(* video-translation-annihilator: inventory of media files, selection of   *)
(* the audio/subtitle streams to drop by language, and generation of the   *)
(* ffmpeg script.  Source: src/video-translation-annihilator.py.           *)
(*                                                                         *)
(* Strings the program inspects character by character (paths, container   *)
(* names) are sequences of one-character strings.  Python dicts are        *)
(* functions whose DOMAIN is the set of keys present.  The program is one  *)
(* process; pc is its position, and the files media.pickle and the script  *)
(* file persist from one run of the program to the next.                   *)
(***************************************************************************)
EXTENDS Integers, Sequences, FiniteSets, TLC

(***************************************************************************)
(* Bounds of the model.                                                    *)
(***************************************************************************)
\* Number of runs of the program carried out one after another.
MaxRuns == 2
\* Number of directory entries below the library root.
MaxFiles == 3

(***************************************************************************)
(* Strings.                                                                *)
(***************************************************************************)
Range(s) == {s[i] : i \in 1..Len(s)}

\* str.lower() on one character (the letters the model's paths use).
LowerChar(c) ==
    CASE c = "M" -> "m"
      [] c = "K" -> "k"
      [] c = "V" -> "v"
      [] c = "B" -> "b"
      [] OTHER -> c

\* str.lower()
lower(s) == [i \in 1..Len(s) |-> LowerChar(s[i])]

\* `c in s` for a one-character c
contains(s, c) == \E i \in 1..Len(s) : s[i] = c

\* s.split(sep) for a one-character sep: the pieces between the separators
\* (one piece, the whole string, when sep does not occur; ''.split(',') is ['']).
RECURSIVE split_from(_, _, _, _)
split_from(s, sep, i, piece) ==
    IF i > Len(s) THEN <<piece>>
    ELSE IF s[i] = sep THEN <<piece>> \o split_from(s, sep, i + 1, <<>>)
    ELSE split_from(s, sep, i + 1, Append(piece, s[i]))

split(s, sep) == split_from(s, sep, 1, <<>>)

\* a_list[-1]
last(l) == l[Len(l)]

\* s[i:].startswith(old), i counted from 1
starts_at(s, old, i) ==
    /\ i + Len(old) - 1 <= Len(s)
    /\ \A j \in 1..Len(old) : s[i + j - 1] = old[j]

\* s.endswith(suffix)
endswith(s, suffix) ==
    /\ Len(suffix) <= Len(s)
    /\ starts_at(s, suffix, Len(s) - Len(suffix) + 1)

\* str.replace(old, new): every non-overlapping occurrence of old, scanning
\* from the left, is replaced by new.  For an empty old, new is inserted
\* before every character and at the end.
RECURSIVE replace_from(_, _, _, _)
replace_from(s, old, new, i) ==
    IF i > Len(s) THEN (IF old = <<>> THEN new ELSE <<>>)
    ELSE IF old = <<>> THEN new \o <<s[i]>> \o replace_from(s, old, new, i + 1)
    ELSE IF starts_at(s, old, i) THEN new \o replace_from(s, old, new, i + Len(old))
    ELSE <<s[i]>> \o replace_from(s, old, new, i + 1)

replace(s, old, new) == replace_from(s, old, new, 1)

(***************************************************************************)
(* Container names and paths.                                              *)
(***************************************************************************)
MKV == <<"m", "k", "v">>
MP4 == <<"m", "p", "4">>
AVI == <<"a", "v", "i">>
UNKNOWN == <<"unknown">>
\* ['mkv', 'mp4', 'avi'], the order of enumeration and the recognised containers
Extensions == <<MKV, MP4, AVI>>

\* The directory entries below the library root, in directory order:
\* mkv/b.mkv, "c d.avi", notes, a.mp4, B.MKV
PathMkvDir == <<"m", "k", "v", "/", "b", ".", "m", "k", "v">>
PathSpace == <<"c", " ", "d", ".", "a", "v", "i">>
PathNoExt == <<"n", "o", "t", "e", "s">>
PathMp4 == <<"a", ".", "m", "p", "4">>
PathUpper == <<"B", ".", "M", "K", "V">>
FsCatalog == <<PathMkvDir, PathSpace, PathNoExt, PathMp4, PathUpper>>

Min(a, b) == IF a < b THEN a ELSE b

\* The roots a run can be given: an absent --input-path, a library, and a
\* directory without media.
NoPath == "None"
Roots == {"lib", "void"}
Listing(root) ==
    IF root = "lib" THEN SubSeq(FsCatalog, 1, Min(MaxFiles, Len(FsCatalog)))
    ELSE <<>>

\* Path(path).rglob('*.<ext>'): the entries whose name ends in ".<ext>"
\* (matching is case-sensitive, as on a POSIX file system).
rglob(root, ext) ==
    LET Matches(p) == endswith(p, <<".">> \o ext)
    IN SelectSeq(Listing(root), Matches)

(***************************************************************************)
(* Streams as ffprobe reports them.                                        *)
(***************************************************************************)
JPN == <<"j", "p", "n">>
ENG == <<"e", "n", "g">>
FRE == <<"f", "r", "e">>
UND == <<"u", "n", "d">>

\* One entry of the "streams" list of ffprobe's JSON: a dict with the keys
\* index and codec_name, and tags (with or without a language) when present.
Stream(index, codec) == [index |-> index, codec_name |-> codec]
Tagged(index, codec, lang) ==
    [index |-> index, codec_name |-> codec, tags |-> [language |-> lang]]
Titled(index, codec) ==
    [index |-> index, codec_name |-> codec, tags |-> [title |-> "t"]]

\* What ffprobe can answer for one file: its audio, video and subtitle streams.
ProbeOutputs == {
    \* index counted over all streams of the file:
    \* video 0; audio jpn 1, eng 2; subtitle eng 3
    [a |-> <<Tagged(1, "aac", JPN), Tagged(2, "aac", ENG)>>,
     v |-> <<Stream(0, "h264")>>,
     s |-> <<Tagged(3, "srt", ENG)>>],
    \* audio untagged 0, tags without a language 1; subtitles und 2, fre 3
    [a |-> <<Stream(0, "mp3"), Titled(1, "mp3")>>,
     v |-> <<>>,
     s |-> <<Tagged(2, "ass", UND), Tagged(3, "ass", FRE)>>]
}

(***************************************************************************)
(* class MediaFileInfo, class MediaFile                                    *)
(***************************************************************************)
MediaFileInfo(container, a, v, s) ==
    [container |-> container, audio_streams |-> a,
     video_streams |-> v, subtitle_streams |-> s]

Ok(value) == [ok |-> TRUE, value |-> <<value>>, exc |-> "none"]
Raise(exc) == [ok |-> FALSE, value |-> <<>>, exc |-> exc]

\* What the environment answers while one file is read: whether the path
\* exists, and what the three ffprobe calls give (an output, or the exception
\* of a failed or interrupted call).
ProbeFailures == {"CalledProcessError", "JSONDecodeError", "KeyboardInterrupt"}
Envs ==
    {[exists |-> FALSE, probe |-> Raise("CalledProcessError")]}
    \cup {[exists |-> TRUE, probe |-> Raise(e)] : e \in ProbeFailures}
    \cup {[exists |-> TRUE, probe |-> Ok(o)] : o \in ProbeOutputs}

\* MediaFileInfo._read_ffmpeg_info
_read_ffmpeg_info(path, env) == env.probe

\* MediaFileInfo.from_path
MediaFileInfo_from_path(path, env) ==
    IF ~contains(path, ".") THEN Raise("ValueError")
    ELSE IF ~env.exists THEN Raise("FileNotFoundError")
    ELSE LET container == lower(last(split(path, ".")))
         IN IF container \notin Range(Extensions)
            THEN Ok(MediaFileInfo(UNKNOWN, <<>>, <<>>, <<>>))
            ELSE LET r == _read_ffmpeg_info(path, env)
                 IN IF r.ok
                    THEN Ok(MediaFileInfo(container, r.value[1].a,
                                          r.value[1].v, r.value[1].s))
                    ELSE r

\* MediaFile.from_path
MediaFile_from_path(path, env) ==
    LET r == MediaFileInfo_from_path(path, env)
    IN IF r.ok THEN Ok([path |-> path, info |-> r.value[1]]) ELSE r

(***************************************************************************)
(* process_media_files: selection of the streams to drop, command line,    *)
(* script.                                                                 *)
(***************************************************************************)
\* line 126: the language of a stream, 'und' without a tags.language
_stream_language(_stream) ==
    IF "tags" \in DOMAIN _stream /\ "language" \in DOMAIN _stream.tags
    THEN _stream.tags.language
    ELSE UND

\* Mutant of delete_stream: the test for 'und' is left out.
delete_stream_without_und(_stream_language_, languages) ==
    _stream_language_ \notin Range(languages)

\* line 127: the condition under which a stream is deleted
delete_stream(_stream_language_, languages) ==
    ~(_stream_language_ = UND) /\ _stream_language_ \notin Range(languages)

\* lines 124-131: the loop of _map_streams over one stream list
RECURSIVE map_stream_list(_, _)
map_stream_list(streams, languages) ==
    IF streams = <<>> THEN <<>>
    ELSE LET _stream == Head(streams)
             rest == map_stream_list(Tail(streams), languages)
         IN IF delete_stream(_stream_language(_stream), languages)
            THEN <<_stream.index>> \o rest
            ELSE rest

\* _map_streams(media_file, stream)
_map_streams(media_file, stream, languages) ==
    map_stream_list(IF stream = "audio" THEN media_file.info.audio_streams
                    ELSE media_file.info.subtitle_streams,
                    languages)

\* Arguments of the command line: a fixed word, a path, or an exclusion
\* f'-0:a:{id}' / f'-0:s:{id}' (text followed by the number id).
Word(w) == [kind |-> "word", text |-> <<w>>, id |-> -1]
PathArg(p) == [kind |-> "path", text |-> p, id |-> -1]
Exclusion(k, id) == [kind |-> "exclusion", text |-> <<"-0:", k, ":">>, id |-> id]

\* lines 135-138: one exclusion per id
exclusions(k, ids) == [i \in 1..Len(ids) |-> Exclusion(k, ids[i])]

\* line 139: the name of the output file
output_path(media_file) ==
    replace(media_file.path, media_file.info.container,
            <<"c", "l", "e", "a", "n", "e", "d", ".">> \o media_file.info.container)

\* _gen_cmdline(media_file, audio_stream_ids, subtitle_stream_ids)
_gen_cmdline(media_file, audio_stream_ids, subtitle_stream_ids) ==
    <<Word("ffmpeg"), Word("-i"), PathArg(media_file.path),
      Word("-map"), Word("0"), Word("-map")>>
    \o exclusions("a", audio_stream_ids)
    \o exclusions("s", subtitle_stream_ids)
    \o <<Word("-c"), Word("copy"), PathArg(output_path(media_file))>>

\* line 162: an argument is put between double quotes when it holds a space
quote(arg) == [quoted |-> contains(arg.text, " "), arg |-> arg]

\* Lines of the script.  The text is '#!/bin/bash\n\n' followed, per file,
\* by the echo line, the joined command line and '\n\n'.
HeaderLine == [line |-> "#!/bin/bash", path |-> <<>>, words |-> <<>>]
BlankLine == [line |-> "", path |-> <<>>, words |-> <<>>]
EchoLine(path) == [line |-> "echo", path |-> path, words |-> <<>>]
CommandLine(cmdline) ==
    [line |-> "command", path |-> <<>>,
     words |-> [i \in 1..Len(cmdline) |-> quote(cmdline[i])]]

\* line 143
script_header == <<HeaderLine, BlankLine>>

\* Mutant of script_block: a file without a stream to drop gets no block.
script_block_only_with_drops(media_file, cmdline) ==
    IF \E i \in 1..Len(cmdline) : cmdline[i].kind = "exclusion"
    THEN <<EchoLine(media_file.path), CommandLine(cmdline), BlankLine>>
    ELSE <<>>

\* lines 161-163: what one iteration of the loop adds to the script
script_block(media_file, cmdline) ==
    <<EchoLine(media_file.path), CommandLine(cmdline), BlankLine>>

(***************************************************************************)
(* pickle                                                                  *)
(***************************************************************************)
\* pickle.dumps(media_files): the protocol header, the items of the list,
\* and the STOP opcode that ends every pickle.
PickleOp(op, arg) == [op |-> op, arg |-> arg]
pickle_dumps(obj) ==
    <<PickleOp("PROTO", <<>>)>>
    \o [i \in 1..Len(obj) |-> PickleOp("ITEM", <<obj[i]>>)]
    \o <<PickleOp("STOP", <<>>)>>

\* Whether data is a whole pickle.
well_formed(data) ==
    /\ Len(data) >= 2
    /\ data[1].op = "PROTO"
    /\ data[Len(data)].op = "STOP"
    /\ \A i \in 2..(Len(data) - 1) : data[i].op = "ITEM"

\* Mutant of pickle_load: an unreadable file is taken for an empty inventory.
pickle_load_lenient(data) ==
    IF well_formed(data)
    THEN Ok([i \in 1..(Len(data) - 2) |-> data[i + 1].arg[1]])
    ELSE Ok(<<>>)

\* pickle.load(cf): the list, or the exception for an empty or truncated file
pickle_load(data) ==
    IF well_formed(data)
    THEN Ok([i \in 1..(Len(data) - 2) |-> data[i + 1].arg[1]])
    ELSE IF data = <<>> THEN Raise("EOFError")
    ELSE Raise("UnpicklingError")

(***************************************************************************)
(* The program: its state.                                                 *)
(***************************************************************************)
VARIABLES
    args,                \* the parsed command line: input_path, cached, languages
    pickleFile,          \* the file media.pickle: [exists, data]
    scriptFile,          \* the file at script_path: whether it exists
    written,             \* what this run wrote to the file at script_path
    pc,                  \* position of the run
    input_files,         \* find_media_files: the enumerated paths
    media_files,         \* find_media_files / module: the inventory
    script,              \* process_media_files: the script built so far
    audio_stream_ids,    \* process_media_files: of the file processed last
    subtitle_stream_ids, \* process_media_files: of the file processed last
    cmdline,             \* process_media_files: of the file processed last
    processed,           \* process_media_files: number of files processed
    exitCode,            \* exit status of the run, -1 while it runs
    exc,                 \* the exception that ended the run, "none" otherwise
    errors,              \* number of lines error() logged during the run
    run,                 \* number of the run
    snapAtStart,         \* history: media.pickle when the run started
    skipped,             \* history: per enumerated file read, whether it failed
    calls                \* history: counts of rglob, from_path, writes during the run

vars == <<args, pickleFile, scriptFile, written, pc, input_files, media_files, script,
          audio_stream_ids, subtitle_stream_ids, cmdline, processed, exitCode,
          exc, errors, run, snapAtStart, skipped, calls>>

locals == <<input_files, media_files, script, audio_stream_ids,
            subtitle_stream_ids, cmdline, processed>>

\* The command lines of the model: --input-path absent or one of the roots,
\* --cached given or not, --languages "jpn", "eng,jpn" or "".
LanguageArgs == {JPN, ENG \o <<",">> \o JPN, <<>>}
ArgSets ==
    {[input_path |-> i, cached |-> c, languages |-> l] :
        i \in {NoPath} \cup Roots, c \in BOOLEAN, l \in LanguageArgs}

Absent == [exists |-> FALSE, data |-> <<>>]
NoCalls == [rglob |-> 0, from_path |-> 0, pickle_open |-> 0, script_write |-> 0]

\* The state a run starts in: nothing in memory.
StartOfRun ==
    /\ pc' = "start"
    /\ input_files' = <<>>
    /\ media_files' = <<>>
    /\ script' = <<>>
    /\ audio_stream_ids' = <<>>
    /\ subtitle_stream_ids' = <<>>
    /\ cmdline' = <<>>
    /\ processed' = 0
    /\ exitCode' = -1
    /\ exc' = "none"
    /\ errors' = 0
    /\ skipped' = <<>>
    /\ calls' = NoCalls
    /\ written' = <<>>

Init ==
    /\ args \in ArgSets
    /\ pickleFile = Absent
    /\ scriptFile = FALSE
    /\ written = <<>>
    /\ pc = "start"
    /\ input_files = <<>>
    /\ media_files = <<>>
    /\ script = <<>>
    /\ audio_stream_ids = <<>>
    /\ subtitle_stream_ids = <<>>
    /\ cmdline = <<>>
    /\ processed = 0
    /\ exitCode = -1
    /\ exc = "none"
    /\ errors = 0
    /\ run = 1
    /\ snapAtStart = Absent
    /\ skipped = <<>>
    /\ calls = NoCalls

\* The process ends with the given status; its memory is gone.
Exit(code, e) ==
    /\ pc' = "exit"
    /\ exitCode' = code
    /\ exc' = e
    /\ input_files' = <<>>
    /\ media_files' = <<>>
    /\ script' = <<>>
    /\ audio_stream_ids' = <<>>
    /\ subtitle_stream_ids' = <<>>
    /\ cmdline' = <<>>
    /\ processed' = 0

\* An exception nobody catches ends the run with a traceback and status 1;
\* a KeyboardInterrupt ends it with the status of the signal.
Uncaught(e) == Exit(IF e = "KeyboardInterrupt" THEN 130 ELSE 1, e)

(***************************************************************************)
(* The program: its steps.                                                 *)
(***************************************************************************)
\* `not x` for an optional string argument
falsy(x) == x = NoPath

\* line 169
missing_arguments(a) == falsy(a.input_path) /\ ~a.cached

\* lines 168-171
CheckArgs ==
    /\ pc = "start"
    /\ IF missing_arguments(args)
       THEN /\ errors' = errors + 1
            /\ Exit(1, "none")
       ELSE /\ pc' = "find"
            /\ UNCHANGED <<errors, exitCode, exc, locals>>
    /\ UNCHANGED <<args, pickleFile, scriptFile, written, run, snapAtStart,
                   skipped, calls>>

\* Mutant of use_cache: the flag is read the wrong way round.
use_cache_inverted(exists, cached) == exists /\ ~cached

\* line 98
use_cache(exists, cached) == exists /\ cached

\* lines 98-101: find_media_files reads the inventory from media.pickle.
\* On its return process_media_files starts with the header (line 143).
FindCached ==
    /\ pc = "find"
    /\ use_cache(pickleFile.exists, args.cached)
    /\ LET r == pickle_load(pickleFile.data)
       IN IF r.ok
          THEN /\ media_files' = r.value[1]
               /\ script' = script_header
               /\ pc' = "process"
               /\ UNCHANGED <<input_files, audio_stream_ids, subtitle_stream_ids,
                              cmdline, processed, exitCode, exc>>
          ELSE Uncaught(r.exc)
    /\ UNCHANGED <<args, pickleFile, scriptFile, written, errors, run,
                   snapAtStart, skipped, calls>>

\* lines 104-106: the paths below path, all mkv, then all mp4, then all avi
enumerate(path) ==
    rglob(path, Extensions[1]) \o rglob(path, Extensions[2])
    \o rglob(path, Extensions[3])

\* lines 102-108: find_media_files enumerates the files; Path(None) raises
FindFresh ==
    /\ pc = "find"
    /\ ~use_cache(pickleFile.exists, args.cached)
    /\ IF args.input_path = NoPath
       THEN /\ Uncaught("TypeError")
            /\ UNCHANGED calls
       ELSE /\ input_files' = enumerate(args.input_path)
            /\ calls' = [calls EXCEPT !.rglob = @ + Len(Extensions)]
            /\ pc' = "read"
            /\ UNCHANGED <<media_files, script, audio_stream_ids,
                           subtitle_stream_ids, cmdline, processed, exitCode, exc>>
    /\ UNCHANGED <<args, pickleFile, scriptFile, written, errors, run,
                   snapAtStart, skipped>>

\* Mutant of caught: only the failure of the ffprobe process is caught.
caught_subprocess_only(e) == e = "CalledProcessError"

\* line 112: `except Exception` catches every exception but those that only
\* derive from BaseException.
caught(e) == e \notin {"KeyboardInterrupt", "SystemExit", "GeneratorExit"}

\* lines 109-113: one iteration of the loop over input_files
ReadFile ==
    /\ pc = "read"
    /\ Len(skipped) < Len(input_files)
    /\ \E env \in Envs :
         LET file == input_files[Len(skipped) + 1]
             r == MediaFile_from_path(file, env)
         IN IF r.ok
            THEN /\ media_files' = Append(media_files, r.value[1])
                 /\ skipped' = Append(skipped, FALSE)
                 /\ UNCHANGED <<pc, errors, exitCode, exc, input_files, script,
                                audio_stream_ids, subtitle_stream_ids, cmdline,
                                processed>>
            ELSE IF caught(r.exc)
            THEN /\ errors' = errors + 1
                 /\ skipped' = Append(skipped, TRUE)
                 /\ UNCHANGED <<pc, exitCode, exc, locals>>
            ELSE /\ Uncaught(r.exc)
                 /\ skipped' = Append(skipped, TRUE)
                 /\ UNCHANGED errors
    /\ calls' = [calls EXCEPT !.from_path = @ + 1]
    /\ UNCHANGED <<args, pickleFile, scriptFile, written, run, snapAtStart>>

\* line 116: open('media.pickle', 'wb') creates the file or truncates it
StoreOpen ==
    /\ pc = "read"
    /\ Len(skipped) = Len(input_files)
    /\ pickleFile' = [exists |-> TRUE, data |-> <<>>]
    /\ calls' = [calls EXCEPT !.pickle_open = @ + 1]
    /\ pc' = "dump"
    /\ UNCHANGED <<args, scriptFile, written, locals, exitCode, exc, errors,
                   run, snapAtStart, skipped>>

\* line 117: pickle.dump writes the whole pickle, or a write fails (OSError)
\* after a part of it reached the file.  After the dump find_media_files
\* returns and process_media_files starts with the header (line 143).
StoreDump ==
    /\ pc = "dump"
    /\ LET data == pickle_dumps(media_files)
       IN \E n \in 0..Len(data) :
            /\ pickleFile' = [exists |-> TRUE, data |-> SubSeq(data, 1, n)]
            /\ IF n = Len(data)
               THEN /\ pc' = "process"
                    /\ script' = script_header
                    /\ UNCHANGED <<input_files, media_files, audio_stream_ids,
                                   subtitle_stream_ids, cmdline, processed,
                                   exitCode, exc>>
               ELSE Uncaught("OSError")
    /\ UNCHANGED <<args, scriptFile, written, errors, run, snapAtStart,
                   skipped, calls>>

\* lines 144-163: one iteration of the loop of process_media_files
ProcessFile ==
    /\ pc = "process"
    /\ processed < Len(media_files)
    /\ LET media_file == media_files[processed + 1]
           languages == split(args.languages, ",")
           a == _map_streams(media_file, "audio", languages)
           s == _map_streams(media_file, "subtitle", languages)
           c == _gen_cmdline(media_file, a, s)
       IN /\ audio_stream_ids' = a
          /\ subtitle_stream_ids' = s
          /\ cmdline' = c
          /\ script' = script \o script_block(media_file, c)
    /\ processed' = processed + 1
    /\ UNCHANGED <<args, pickleFile, scriptFile, written, pc, input_files,
                   media_files, exitCode, exc, errors, run, snapAtStart,
                   skipped, calls>>

\* lines 184-188: the script replaces the file at script_path; the run ends.
\* What earlier runs left in that file is never read: only its existence is
\* carried from run to run.
WriteScript ==
    /\ pc = "process"
    /\ processed = Len(media_files)
    /\ scriptFile' = TRUE
    /\ written' = script
    /\ calls' = [calls EXCEPT !.script_write = @ + 1]
    /\ Exit(0, "none")
    /\ UNCHANGED <<args, pickleFile, errors, run, snapAtStart, skipped>>

\* The operator interrupts the run (Ctrl-C) between two steps.
Interrupt ==
    /\ pc \notin {"exit"}
    /\ Uncaught("KeyboardInterrupt")
    /\ UNCHANGED <<args, pickleFile, scriptFile, written, errors, run,
                   snapAtStart, skipped, calls>>

\* The operator starts the program again, in the same working directory.
NextRun ==
    /\ pc = "exit"
    /\ run < MaxRuns
    /\ run' = run + 1
    /\ args' \in ArgSets
    /\ snapAtStart' = pickleFile
    /\ StartOfRun
    /\ UNCHANGED <<pickleFile, scriptFile>>

Next ==
    \/ CheckArgs
    \/ FindCached
    \/ FindFresh
    \/ ReadFile
    \/ StoreOpen
    \/ StoreDump
    \/ ProcessFile
    \/ WriteScript
    \/ Interrupt
    \/ NextRun

Spec == Init /\ [][Next]_vars

(***************************************************************************)
(* Properties.                                                             *)
(***************************************************************************)
\* A file has been processed and the loop of process_media_files holds its
\* results in audio_stream_ids, subtitle_stream_ids and cmdline.
FileProcessed == pc = "process" /\ processed >= 1
LastProcessed == media_files[processed]
AllowList == split(args.languages, ",")

\* The language of a stream as the specification resolves it.
ResolvedLanguage(s) ==
    IF "tags" \notin DOMAIN s THEN UND
    ELSE IF "language" \notin DOMAIN s.tags THEN UND
    ELSE s.tags.language

MarkedForDrop(s, allow) ==
    /\ ResolvedLanguage(s) # UND
    /\ \A i \in 1..Len(allow) : allow[i] # ResolvedLanguage(s)

\* The places (counted from 1) of the streams marked for drop, in list order.
DropPlaces(streams, allow) ==
    LET Marked(i) == MarkedForDrop(streams[i], allow)
    IN SelectSeq([i \in 1..Len(streams) |-> i], Marked)

ExactlyTheDrops(ids, streams, allow) ==
    LET places == DropPlaces(streams, allow)
    IN ids = [j \in 1..Len(places) |-> streams[places[j]].index]

\* C1: for the audio list and for the subtitle list of a file, _map_streams
\* returns the streams whose resolved language is neither "und" nor in the
\* allow-list, all of them and no other, in the order of the list.
C1_DropIffTaggedAndNotAllowed ==
    FileProcessed =>
        /\ ExactlyTheDrops(audio_stream_ids,
                           LastProcessed.info.audio_streams, AllowList)
        /\ ExactlyTheDrops(subtitle_stream_ids,
                           LastProcessed.info.subtitle_streams, AllowList)

\* C1 witness: with the allow-list "jpn", the jpn audio stream is kept, the
\* eng audio stream and the eng subtitle stream are dropped.
C1_Witness ==
    /\ FileProcessed
    /\ AllowList = <<JPN>>
    /\ Len(LastProcessed.info.audio_streams) = 2
    /\ ResolvedLanguage(LastProcessed.info.audio_streams[1]) = JPN
    /\ Len(audio_stream_ids) = 1
    /\ Len(subtitle_stream_ids) = 1

\* The numbers of the exclusions of one kind in a command line, in order.
ExclusionIds(cmd, k) ==
    LET IsKind(arg) == arg.kind = "exclusion" /\ arg.text[2] = k
        found == SelectSeq(cmd, IsKind)
    IN [j \in 1..Len(found) |-> found[j].id]

\* The positions of the dropped streams in their list, counted from 0 as
\* ffmpeg counts the streams of one kind.
DropPositions(streams, allow) ==
    LET places == DropPlaces(streams, allow)
    IN [j \in 1..Len(places) |-> places[j] - 1]

\* C2: the number in every exclusion -0:a:<n> / -0:s:<n> of the command is
\* the position of the dropped stream in the list of its kind.
C2_ExclusionNumberIsPosition ==
    FileProcessed =>
        /\ ExclusionIds(cmdline, "a")
             = DropPositions(LastProcessed.info.audio_streams, AllowList)
        /\ ExclusionIds(cmdline, "s")
             = DropPositions(LastProcessed.info.subtitle_streams, AllowList)

\* C3: the output path of the command is the input path with only its
\* trailing container suffix replaced by cleaned.<container>.
C3_OutputReplacesOnlySuffix ==
    FileProcessed =>
        LET path == LastProcessed.path
            container == LastProcessed.info.container
        IN last(cmdline).text
             = SubSeq(path, 1, Len(path) - Len(container))
               \o <<"c", "l", "e", "a", "n", "e", "d", ".">> \o container

\* The files read so far that did not fail, in enumeration order.
KeptFiles ==
    LET Kept(i) == ~skipped[i]
        places == SelectSeq([i \in 1..Len(skipped) |-> i], Kept)
    IN [j \in 1..Len(places) |-> input_files[places[j]]]

PerFileFailures ==
    {"ValueError", "FileNotFoundError", "CalledProcessError", "JSONDecodeError"}

\* C4: in a fresh scan the inventory is the files that did not fail, in
\* enumeration order; the loop reaches its end over every file, and no failure
\* of a file ends the run.
C4_FailingFilesAreSkipped ==
    /\ pc \in {"read", "dump"} =>
          /\ Len(media_files) = Len(KeptFiles)
          /\ \A j \in 1..Len(media_files) : media_files[j].path = KeptFiles[j]
    /\ pc = "dump" => Len(skipped) = Len(input_files)
    /\ exc \notin PerFileFailures

\* C4 witness: two files enumerated, the first failed, the scan is at its end
\* with the one other file.
C4_Witness ==
    /\ pc = "dump"
    /\ Len(input_files) = 2
    /\ skipped = <<TRUE, FALSE>>
    /\ Len(media_files) = 1
    /\ errors = 1

\* C5: once a run has ended, however it ended, media.pickle is absent or
\* holds a whole pickle of an inventory.
C5_SnapshotAbsentOrComplete ==
    pc = "exit" => (~pickleFile.exists \/ well_formed(pickleFile.data))

\* A run asked to resume from the cache, with a snapshot present at its start.
ResumeRequested == args.cached /\ snapAtStart.exists

\* C6: a run with --cached and a snapshot enumerates nothing, probes nothing
\* and leaves media.pickle as it was; when the snapshot is a whole pickle,
\* find_media_files returns the list it holds.
C6_CachedResumeReturnsSnapshot ==
    ResumeRequested =>
        /\ calls.rglob = 0
        /\ calls.from_path = 0
        /\ calls.pickle_open = 0
        /\ pickleFile = snapAtStart
        /\ pc \notin {"read", "dump"}
        /\ exc # "TypeError"
        /\ pc = "process" =>
              /\ well_formed(snapAtStart.data)
              /\ Len(media_files) = Len(snapAtStart.data) - 2
              /\ \A i \in 1..Len(media_files) :
                    media_files[i] = snapAtStart.data[i + 1].arg[1]

\* C6 witness: a run over the empty directory resumes from a snapshot that
\* holds a file.
C6_Witness ==
    /\ ResumeRequested
    /\ args.input_path = "void"
    /\ pc = "process"
    /\ Len(media_files) >= 1

\* C7: a run with --cached whose snapshot is not a whole pickle fails with the
\* error of pickle.load: it scans nothing, writes neither media.pickle nor the
\* script, and ends with a status other than 0.
C7_CorruptSnapshotIsFatal ==
    (ResumeRequested /\ ~well_formed(snapAtStart.data)) =>
        /\ pc \in {"start", "find", "exit"}
        /\ calls = NoCalls
        /\ pickleFile = snapAtStart
        /\ written = <<>>
        /\ pc = "exit" =>
              /\ exitCode # 0
              /\ exc \in {"EOFError", "UnpicklingError", "KeyboardInterrupt"}

\* C7 witness: the run has ended with the error of pickle.load.
C7_Witness ==
    /\ ResumeRequested
    /\ ~well_formed(snapAtStart.data)
    /\ pc = "exit"
    /\ exitCode = 1
    /\ exc \in {"EOFError", "UnpicklingError"}

\* C8: a run that no interrupt and no failed write ended has status 1, with an
\* error message, exactly when neither --input-path nor --cached was given,
\* and status 0 otherwise.
C8_ExitOneIffNoInputNoCache ==
    (pc = "exit" /\ exc \notin {"KeyboardInterrupt", "OSError"}) =>
        IF args.input_path = NoPath /\ ~args.cached
        THEN exitCode = 1 /\ errors >= 1
        ELSE exitCode = 0

\* C9: the script is the header line, a blank line, and then for every file
\* processed, in inventory order, the echo line of the file, its command line
\* and a blank line; at the end of the loop that is one block per file.
C9_ScriptIsHeaderThenBlocks ==
    pc = "process" =>
        /\ Len(script) = 2 + 3 * processed
        /\ script[1] = HeaderLine
        /\ script[2] = BlankLine
        /\ \A i \in 1..processed :
              LET mf == media_files[i]
                  cmd == _gen_cmdline(mf,
                                      _map_streams(mf, "audio", AllowList),
                                      _map_streams(mf, "subtitle", AllowList))
              IN /\ script[3 * i] = EchoLine(mf.path)
                 /\ script[3 * i + 1] = CommandLine(cmd)
                 /\ script[3 * i + 2] = BlankLine

\* C9 witness: the script of an inventory of two files is complete, and the
\* second file has no stream to drop.
C9_Witness ==
    /\ pc = "process"
    /\ processed = 2
    /\ Len(media_files) = 2
    /\ audio_stream_ids = <<>>
    /\ subtitle_stream_ids = <<>>

IsMap(arg) == arg = Word("-map")
IsSpecifier(arg) == arg = Word("0") \/ arg.kind = "exclusion"

\* C10: in the command of a file every -map is followed by a stream
\* specifier, and every exclusion is preceded by a -map.
C10_EveryMapHasItsSpecifier ==
    FileProcessed =>
        \A i \in 1..Len(cmdline) :
            /\ IsMap(cmdline[i]) =>
                  (i < Len(cmdline) /\ IsSpecifier(cmdline[i + 1]))
            /\ cmdline[i].kind = "exclusion" =>
                  (i > 1 /\ IsMap(cmdline[i - 1]))

=============================================================================
